---- MODULE Spec2Model ----
(***************************************************************************)
(* Model of the Triton ResourceGroup reconciler of kubicorn                *)
(* (Actual / Expected / Apply / Delete) and of its address poller          *)
(* getMasterIP.  One action is one remote call of the facade together with *)
(* the local code that runs up to the next remote call; the outcome of     *)
(* every remote call is chosen by the environment.                         *)
(***************************************************************************)
EXTENDS Integers, Sequences, FiniteSets, TLC

VARIABLES
    r,          \* the receiver *ResourceGroup: Shared.Name, Shared.Identifier, Shared.Tags
    pool,       \* r.ServerPool, the configuration object shared by pointer
    cluster,    \* the *cluster.Cluster passed as `immutable`
    instances,  \* identifiers of the instances created remotely
    pc,         \* position of the running operation
    poll,       \* locals and last return of getMasterIP
    frame,      \* locals of Apply that live across remote calls
    calls,      \* remote calls issued by the operation in progress (or the last one)
    ret         \* what the last operation returned

vars == <<r, pool, cluster, instances, pc, poll, frame, calls, ret>>

----------------------------------------------------------------------------
(* Program constants *)

MasterIPAttempts == 100
PackageName == "k4-highcpu-kvm-1.75G"
ImageName == "ubuntu-certified-16.04"
ImageVersion == "20180222"
NetworkName == "Joyent-SDC-Public"
FabricNetwork == "My-Fabric-Network"

(* Bounds of the model *)

MaxCreates == 2

(* Inputs *)

ResourceName == "rg-1"
PoolName == "pool-1"
ClusterName == "cluster-1"
Port == "443"
ServerPoolTypeMaster == "master"
ServerPoolTypeNode == "node"
ExistingId == "m-0"
AddressLists == { <<"10.0.0.5">>, <<"10.0.0.6", "10.0.0.7">> }

ErrGet == "Instances.Get: transport error"
ErrCreate == "Instances.Create: transport error"
ErrImages == "Images.List: transport error"
ErrNetworks == "Network.List: transport error"
ErrScript == "BuildBootstrapScript: error"
ErrNoMasterIP == "Unable to find master IP addresses"
ErrDeleteNoId == "Unable to delete VPC resource without ID"
NilDereference == "panic: nil pointer dereference"

----------------------------------------------------------------------------
(* Values *)

NoTags == [k \in {} |-> ""]
NameTag(n) == [k \in {"Name"} |-> n]

NoResource == [kind |-> "nil"]

ResourceGroup(name, tags, id, serverPool) ==
    [kind |-> "ResourceGroup", Name |-> name, Tags |-> tags,
     Identifier |-> id, ServerPool |-> serverPool]

NilNetwork == [nil |-> TRUE]
Network(id, name) == [nil |-> FALSE, Id |-> id, Name |-> name]

NoReturn == [status |-> "none", cluster |-> "nil", resource |-> NoResource, err |-> ""]
Returned(c, res, e) ==
    [status |-> IF e = "" THEN "ok" ELSE "err", cluster |-> c, resource |-> res, err |-> e]
Panicked == [status |-> "panic", cluster |-> "nil", resource |-> NoResource,
             err |-> NilDereference]

ItemMapSet(m, k, v) == [x \in (DOMAIN m) \cup {k} |-> IF x = k THEN v ELSE m[x]]

NoFrame == [op |-> "", actual |-> NoResource, expected |-> NoResource,
            img |-> "", nets |-> <<>>, createInput |-> [nil |-> TRUE], created |-> ""]
NoPoll == [id |-> "", i |-> 0, done |-> FALSE, ips |-> <<>>, err |-> ""]

\* a remote call as logged: the operation, its argument, the error and the
\* result the facade handed back
Call(op, arg, err, res) == [op |-> op, arg |-> arg, err |-> err, res |-> res]

----------------------------------------------------------------------------
(* The remote facade: every call either fails or yields a result *)

GetOutcomes ==
    { [err |-> ErrGet, IPs |-> <<>>] }
    \cup { [err |-> "", IPs |-> a] : a \in {<<>>} \cup AddressLists }

ImagesOutcomes ==
    { [err |-> ErrImages, images |-> <<>>],
      [err |-> "", images |-> <<>>],
      [err |-> "", images |-> <<"img-1", "img-2">>] }

PublicNet == Network("net-pub", NetworkName)
FabricNet == Network("net-fab", FabricNetwork)
OtherNet == Network("net-other", "Other-Network")

NetworkOutcomes ==
    { [err |-> ErrNetworks, nets |-> <<>>] }
    \cup { [err |-> "", nets |-> n] :
             n \in { <<OtherNet>>, <<PublicNet>>, <<PublicNet, OtherNet, FabricNet>> } }

CreateOutcomes == { ErrCreate, "" }

NumCreated == Cardinality(instances \ {ExistingId})
FreshId == "i-" \o ToString(NumCreated + 1)

----------------------------------------------------------------------------
(* Helpers of the operations *)

\* compare.IsEqual: structural equality of the two resources, all fields;
\* a ServerPool pointer is compared by what it points to.
IsEqual(a, b) ==
    /\ a.Name = b.Name
    /\ a.Tags = b.Tags
    /\ a.Identifier = b.Identifier
    /\ a.ServerPool = b.ServerPool

\* cluster.ProviderConfig() hands out the provider configuration of the
\* cluster; a write through it is a write to the cluster state.
SetEndpoint(c, addr) == [c EXCEPT !.Endpoint = addr]
SetItem(c, k, v) == [c EXCEPT !.ItemMap = ItemMapSet(c.ItemMap, k, v)]

\* make([]string, 3, 3): three empty strings
PollerRet == [k \in 1..3 |-> ""]

\* Variants of getMasterIPStep, each with one slip: only the first address
\* is handed back; a failed fetch is retried like an empty one; the loop
\* runs one attempt too many.
getMasterIPStep_FirstAddressOnly(i, out) ==
    IF out.err # ""
    THEN [done |-> TRUE, ips |-> PollerRet, err |-> out.err, i |-> i]
    ELSE IF Len(out.IPs) > 0
    THEN [done |-> TRUE, ips |-> <<out.IPs[1]>>, err |-> "", i |-> i]
    ELSE IF i + 1 < MasterIPAttempts
    THEN [done |-> FALSE, ips |-> <<>>, err |-> "", i |-> i + 1]
    ELSE [done |-> TRUE, ips |-> PollerRet, err |-> "", i |-> i + 1]

getMasterIPStep_RetriesError(i, out) ==
    IF Len(out.IPs) > 0
    THEN [done |-> TRUE, ips |-> out.IPs, err |-> "", i |-> i]
    ELSE IF i + 1 < MasterIPAttempts
    THEN [done |-> FALSE, ips |-> <<>>, err |-> "", i |-> i + 1]
    ELSE [done |-> TRUE, ips |-> PollerRet, err |-> out.err, i |-> i + 1]

getMasterIPStep_OneTooMany(i, out) ==
    IF out.err # ""
    THEN [done |-> TRUE, ips |-> PollerRet, err |-> out.err, i |-> i]
    ELSE IF Len(out.IPs) > 0
    THEN [done |-> TRUE, ips |-> out.IPs, err |-> "", i |-> i]
    ELSE IF i + 1 <= MasterIPAttempts
    THEN [done |-> FALSE, ips |-> <<>>, err |-> "", i |-> i + 1]
    ELSE [done |-> TRUE, ips |-> PollerRet, err |-> "", i |-> i + 1]

\* One iteration of the loop of getMasterIP, entered with loop counter i, on
\* the outcome of its fetch: whether the function returns, with what, and
\* the loop counter afterwards.
getMasterIPStep(i, out) ==
    IF out.err # ""
    THEN [done |-> TRUE, ips |-> PollerRet, err |-> out.err, i |-> i]
    ELSE IF Len(out.IPs) > 0
    THEN [done |-> TRUE, ips |-> out.IPs, err |-> "", i |-> i]
    ELSE IF i + 1 < MasterIPAttempts
    THEN [done |-> FALSE, ips |-> <<>>, err |-> "", i |-> i + 1]
    ELSE [done |-> TRUE, ips |-> PollerRet, err |-> "", i |-> i + 1]

\* the last network of the listing that carries the name, nil if none
FindNetwork(nets, name) ==
    LET idx == { k \in 1..Len(nets) : nets[k].Name = name }
    IN  IF idx = {} THEN NilNetwork
        ELSE nets[CHOOSE k \in idx : \A j \in idx : j <= k]

CreateInput(img, net1, net2) ==
    [nil |-> FALSE, Name |-> pool.Name, Package |-> PackageName, Image |-> img,
     Networks |-> <<net1.Id, net2.Id>>, Tags |-> [k \in {"name"} |-> pool.Name]]

\* return from the running operation
Return(v) ==
    /\ ret' = v
    /\ pc' = "idle"

----------------------------------------------------------------------------
Init ==
    /\ \E id \in {"", ExistingId}, type \in {ServerPoolTypeMaster, ServerPoolTypeNode} :
          /\ r = [Name |-> ResourceName, Identifier |-> id, Tags |-> NoTags]
          /\ pool = [Name |-> PoolName, Type |-> type, Identifier |-> id]
          /\ instances = IF id = "" THEN {} ELSE {id}
    /\ cluster = [Name |-> ClusterName, Endpoint |-> "", Port |-> Port,
                  ItemMap |-> NoTags, GroupIdentifier |-> ""]
    /\ pc = "idle"
    /\ poll = NoPoll
    /\ frame = NoFrame
    /\ calls = <<>>
    /\ ret = NoReturn

----------------------------------------------------------------------------
(* What the caller holds and may pass to Apply and Delete *)

ActualOf == ResourceGroup(r.Name, NameTag(pool.Name), r.Identifier, "nil")
\* Variant of ExpectedOf that leaves the ServerPool out, as Actual does.
ExpectedOf_WithoutPool == ResourceGroup(r.Name, NameTag(pool.Name), r.Identifier, "nil")
ExpectedOf == ResourceGroup(r.Name, NameTag(pool.Name), r.Identifier, "pool")

Held ==
    {ActualOf, ExpectedOf}
    \cup (IF ret.resource.kind = "ResourceGroup" THEN {ret.resource} ELSE {})

\* an expected resource comes from Expected or from Apply: it carries the pool
HeldExpected == { x \in Held : x.ServerPool = "pool" }

Begin(op, actual, expected) ==
    /\ pc = "idle"
    /\ frame' = [NoFrame EXCEPT !.op = op, !.actual = actual, !.expected = expected]

----------------------------------------------------------------------------
(* Actual *)

\* the instance Instances.Get yields for an identifier
InstanceOf(id) == [nil |-> FALSE, ID |-> id, Name |-> PoolName]

Actual ==
    /\ Begin("Actual", NoResource, NoResource)
    /\ poll' = NoPoll
    /\ UNCHANGED <<r, pool, cluster, instances>>
    /\ IF r.Identifier # ""
       THEN \E out \in GetOutcomes :
              /\ calls' = <<Call("Instances.Get", r.Identifier, out.err, out.IPs)>>
              /\ IF out.err # ""
                 \* instance.Name is read before err is looked at
                 THEN Return(Panicked)
                 ELSE LET instance == InstanceOf(r.Identifier)
                      IN  Return(Returned("immutable",
                              ResourceGroup(instance.Name, NameTag(pool.Name),
                                            instance.ID, "nil"), ""))
       ELSE /\ calls' = <<>>
            /\ Return(Returned("immutable", ActualOf, ""))

(* Expected *)

Expected ==
    /\ Begin("Expected", NoResource, NoResource)
    /\ poll' = NoPoll
    /\ calls' = <<>>
    /\ UNCHANGED <<r, pool, cluster, instances>>
    /\ Return(Returned("immutable", ExpectedOf, ""))

----------------------------------------------------------------------------
(* Apply *)

\* Apply from the write of INJECTEDPORT to the rendering of the bootstrap
\* script, on the cluster state c left by the code before it.
ApplyBuildScript(c) ==
    /\ cluster' = SetItem(c, "INJECTEDPORT", c.Port)
    /\ \E scriptErr \in {"", ErrScript} :
          IF scriptErr # ""
          THEN Return(Returned("nil", NoResource, scriptErr))
          ELSE pc' = "images" /\ ret' = NoReturn

\* Variant of ApplyNewResource that leaves the ServerPool's identifier alone.
ApplyNewResource_PoolNotUpdated(created) ==
    /\ UNCHANGED pool
    /\ Return(Returned("immutable", ResourceGroup(pool.Name, NoTags, created, "pool"), ""))

\* Apply from the construction of the new resource to its return.
ApplyNewResource(created) ==
    /\ pool' = [pool EXCEPT !.Identifier = created]
    /\ Return(Returned("immutable", ResourceGroup(pool.Name, NoTags, created, "pool"), ""))

\* Variant of ApplyAlreadyEqual that does not stop at an equal pair.
ApplyAlreadyEqual_GoesOn(expected) ==
    /\ NumCreated < MaxCreates
    /\ UNCHANGED pool
    /\ poll' = NoPoll
    /\ ApplyBuildScript(cluster)

\* Apply on a pair that compares equal.
ApplyAlreadyEqual(expected) ==
    /\ Return(Returned("immutable", expected, ""))
    /\ poll' = NoPoll
    /\ UNCHANGED <<pool, cluster>>

\* the poller as Apply calls it for a node, and for a master on the created instance
NodePollStart == [NoPoll EXCEPT !.id = r.Identifier]
\* Variant of MasterPollStart that polls the receiver's identifier, as a node does.
MasterPollStart_ReceiverId(created) == [NoPoll EXCEPT !.id = r.Identifier]
MasterPollStart(created) == [NoPoll EXCEPT !.id = created]

\* Variant of ApplyOf that writes INJECTEDPORT before a node's poll.
ApplyOf_InjectsPortFirst(actual, expected) ==
    /\ Begin("Apply", actual, expected)
    /\ calls' = <<>>
    /\ UNCHANGED <<r, instances>>
    /\ IF IsEqual(actual, expected)
       THEN ApplyAlreadyEqual(expected)
       ELSE /\ NumCreated < MaxCreates
            /\ UNCHANGED pool
            /\ IF pool.Type = ServerPoolTypeNode
               THEN /\ pc' = "nodePoll"
                    /\ poll' = NodePollStart
                    /\ ret' = NoReturn
                    /\ cluster' = SetItem(cluster, "INJECTEDPORT", cluster.Port)
               ELSE /\ poll' = NoPoll
                    /\ ApplyBuildScript(cluster)

\* Apply up to its first remote call.
ApplyOf(actual, expected) ==
    /\ Begin("Apply", actual, expected)
    /\ calls' = <<>>
    /\ UNCHANGED <<r, instances>>
    /\ IF IsEqual(actual, expected)
       THEN ApplyAlreadyEqual(expected)
       ELSE /\ NumCreated < MaxCreates
            /\ UNCHANGED pool
            /\ IF pool.Type = ServerPoolTypeNode
               THEN /\ pc' = "nodePoll"
                    /\ poll' = NodePollStart
                    /\ ret' = NoReturn
                    /\ UNCHANGED cluster
               ELSE /\ poll' = NoPoll
                    /\ ApplyBuildScript(cluster)

Apply == \E actual \in Held, expected \in HeldExpected : ApplyOf(actual, expected)

\* One fetch of the poller that a node's Apply runs before anything else,
\* and, when the poller returns, Apply up to the image lookup.
NodePollFetch ==
    /\ pc = "nodePoll"
    /\ UNCHANGED <<r, pool, instances, frame>>
    /\ \E out \in GetOutcomes :
          LET s == getMasterIPStep(poll.i, out)
          IN  /\ calls' = Append(calls, Call("Instances.Get", poll.id, out.err, out.IPs))
              /\ poll' = [id |-> poll.id, i |-> s.i, done |-> s.done,
                          ips |-> s.ips, err |-> s.err]
              /\ IF ~s.done
                 THEN UNCHANGED <<cluster, pc, ret>>
                 ELSE IF s.err # ""
                 THEN /\ Return(Returned("nil", NoResource, s.err))
                      /\ UNCHANGED cluster
                 ELSE ApplyBuildScript(
                          SetItem(SetEndpoint(cluster, s.ips[1]), "INJECTEDMASTER",
                                  s.ips[1] \o ":" \o cluster.Port))

\* Images().List and the choice of the image: an error is logged only.
ApplyImagesList ==
    /\ pc = "images"
    /\ UNCHANGED <<r, pool, cluster, instances, poll, ret>>
    /\ \E out \in ImagesOutcomes :
          /\ calls' = Append(calls, Call("Images.List", <<ImageName, ImageVersion>>, out.err, out.images))
          /\ frame' = [frame EXCEPT
                          !.img = IF Len(out.images) > 0 THEN out.images[1] ELSE ""]
          /\ pc' = "networks"

\* Network.List, the choice of the two networks and the building of the
\* create input: an error is logged only; net1.Id and net2.Id are read
\* through pointers that are nil when no network carried the name.
ApplyNetworkList ==
    /\ pc = "networks"
    /\ UNCHANGED <<r, pool, cluster, instances, poll>>
    /\ \E out \in NetworkOutcomes :
          LET net1 == FindNetwork(out.nets, NetworkName)
              net2 == FindNetwork(out.nets, FabricNetwork)
          IN  /\ calls' = Append(calls, Call("Network.List", "", out.err, out.nets))
              /\ IF net1.nil \/ net2.nil
                 THEN /\ frame' = [frame EXCEPT !.nets = out.nets]
                      /\ Return(Panicked)
                 ELSE /\ frame' = [frame EXCEPT !.nets = out.nets,
                                      !.createInput = CreateInput(frame.img, net1, net2)]
                      /\ pc' = "create"
                      /\ UNCHANGED ret

\* Instances().Create and, for a node, the rest of Apply.
ApplyCreate ==
    /\ pc = "create"
    /\ UNCHANGED <<r, cluster>>
    /\ \E err \in CreateOutcomes :
          IF err # ""
          THEN /\ calls' = Append(calls, Call("Instances.Create", frame.createInput, err, ""))
               /\ Return(Returned("nil", NoResource, err))
               /\ UNCHANGED <<pool, instances, poll, frame>>
          ELSE LET created == FreshId
               IN  /\ calls' = Append(calls,
                                      Call("Instances.Create", frame.createInput, "", created))
                   /\ instances' = instances \cup {created}
                   /\ frame' = [frame EXCEPT !.created = created]
                   /\ IF pool.Type = ServerPoolTypeMaster
                      THEN /\ pc' = "masterPoll"
                           /\ poll' = MasterPollStart(created)
                           /\ UNCHANGED <<pool, ret>>
                      ELSE /\ ApplyNewResource(created)
                           /\ UNCHANGED poll

\* One fetch of the poller that a master's Apply runs on the created
\* instance, and, when the poller returns, the rest of Apply.
MasterPollFetch ==
    /\ pc = "masterPoll"
    /\ UNCHANGED <<r, instances, frame>>
    /\ \E out \in GetOutcomes :
          LET s == getMasterIPStep(poll.i, out)
          IN  /\ calls' = Append(calls, Call("Instances.Get", poll.id, out.err, out.IPs))
              /\ poll' = [id |-> poll.id, i |-> s.i, done |-> s.done,
                          ips |-> s.ips, err |-> s.err]
              /\ IF ~s.done
                 THEN UNCHANGED <<pool, cluster, pc, ret>>
                 ELSE IF s.err # ""
                 THEN /\ Return(Returned("nil", NoResource, s.err))
                      /\ UNCHANGED <<pool, cluster>>
                 ELSE IF Len(s.ips) = 0
                 THEN /\ Return(Returned("nil", NoResource, ErrNoMasterIP))
                      /\ UNCHANGED <<pool, cluster>>
                 ELSE /\ cluster' = SetEndpoint(cluster, s.ips[1])
                      /\ ApplyNewResource(frame.created)

----------------------------------------------------------------------------
(* Delete *)

\* Variant of immutableRender that does not rename the cluster.
immutableRender_KeepsClusterName(newResource, inaccurateCluster) ==
    [Name |-> inaccurateCluster.Name, Endpoint |-> "", Port |-> "", ItemMap |-> NoTags,
     GroupIdentifier |-> newResource.Identifier]

\* the cluster with a fresh provider configuration that carries only the
\* group identifier, and the name of the resource
immutableRender(newResource, inaccurateCluster) ==
    [Name |-> newResource.Name, Endpoint |-> "", Port |-> "", ItemMap |-> NoTags,
     GroupIdentifier |-> newResource.Identifier]

\* Variant of DeleteOf without the check of the identifier.
DeleteOf_NoCheck(actual) ==
    /\ Begin("Delete", actual, NoResource)
    /\ calls' = <<>>
    /\ poll' = NoPoll
    /\ UNCHANGED <<r, pool, instances>>
    /\ LET newResource == ResourceGroup(r.Name, r.Tags, "", "nil")
       IN  /\ cluster' = immutableRender(newResource, cluster)
           /\ Return(Returned("newCluster", newResource, ""))

DeleteOf(actual) ==
    /\ Begin("Delete", actual, NoResource)
    /\ calls' = <<>>
    /\ poll' = NoPoll
    /\ UNCHANGED <<r, pool, instances>>
    /\ IF actual.Identifier = ""
       THEN /\ Return(Returned("nil", NoResource, ErrDeleteNoId))
            /\ UNCHANGED cluster
       ELSE LET newResource == ResourceGroup(r.Name, r.Tags, "", "nil")
            IN  /\ cluster' = immutableRender(newResource, cluster)
                /\ Return(Returned("newCluster", newResource, ""))

Delete == \E actual \in Held : DeleteOf(actual)

----------------------------------------------------------------------------
Next ==
    \/ Actual
    \/ Expected
    \/ Apply
    \/ NodePollFetch
    \/ ApplyImagesList
    \/ ApplyNetworkList
    \/ ApplyCreate
    \/ MasterPollFetch
    \/ Delete

Spec == Init /\ [][Next]_vars

\* The poller runs in the calling goroutine: once entered, its loop goes on
\* to the next fetch, and a fetch comes back.
LiveSpec == Spec /\ WF_vars(NodePollFetch) /\ WF_vars(MasterPollFetch)

----------------------------------------------------------------------------
(* Observations used by the properties *)

InApply == frame.op = "Apply"
Polling == pc \in {"nodePoll", "masterPoll"}

\* the fetches the poller of the current Apply has issued, in order
Fetches == IF InApply THEN SelectSeq(calls, LAMBDA c : c.op = "Instances.Get") ELSE <<>>

EmptyFetch(c) == c.err = "" /\ Len(c.res) = 0

\* the poller has returned because the loop ran out of attempts
Exhausted == InApply /\ poll.done /\ poll.err = "" /\ poll.i = MasterIPAttempts

IndexOf(op) == { k \in 1..Len(calls) : calls[k].op = op }

----------------------------------------------------------------------------
(* C1: in a master's Apply, when the poller on the created instance runs  *)
(* out of attempts with every fetch empty, Apply returns an error and no   *)
(* resource, and leaves the endpoint as it was.                            *)
C1_ExhaustedMasterApplyFails ==
    [][(pc = "masterPoll" /\ pc' = "idle" /\ Exhausted')
         => /\ ret'.status = "err"
            /\ ret'.resource = NoResource
            /\ cluster'.Endpoint = cluster.Endpoint]_vars

(* C2: when the poller reaches the ceiling with every fetch succeeding    *)
(* and empty, it returns a sequence of length 0 and a nil error.           *)
C2_ExhaustedPollerReturnsEmpty ==
    Exhausted => (Len(poll.ips) = 0 /\ poll.err = "")

(* C3: the first fetch that reports an address is the last fetch, and the *)
(* poller returns that fetch's whole address list with a nil error; so k-1 *)
(* empty fetches and a k-th with addresses A give (A, nil) after k fetches *)
C3_ReturnsOnFirstAddress ==
    LET F == Fetches
    IN  \A k \in 1..Len(F) :
            IF F[k].err = "" /\ Len(F[k].res) > 0
            THEN /\ k = Len(F)
                 /\ poll.done /\ poll.err = "" /\ poll.ips = F[k].res
                 /\ ~Polling
            ELSE k < Len(F) => EmptyFetch(F[k])

C3_Witness ==
    /\ Len(calls) >= 3
    /\ Len(Fetches) = 3
    /\ EmptyFetch(Fetches[1]) /\ EmptyFetch(Fetches[2])
    /\ Fetches[3].res = <<"10.0.0.6", "10.0.0.7">>
    /\ poll.done /\ poll.ips = <<"10.0.0.6", "10.0.0.7">> /\ poll.err = ""

(* C4: a fetch that fails ends the poll with its error and is the last     *)
(* fetch; an empty fetch below the ceiling leaves the poller in its loop,  *)
(* about to fetch again.                                                   *)
C4_ErrorEndsEmptyRetries ==
    LET F == Fetches
        n == Len(F)
    IN  /\ \A k \in 1..n :
              F[k].err # ""
              => /\ k = n
                 /\ poll.done /\ poll.err = F[k].err
                 /\ pc = "idle" /\ ret.status = "err" /\ ret.err = F[k].err
        /\ (n > 0 /\ EmptyFetch(F[n]) /\ n < MasterIPAttempts)
              => (Polling /\ ~poll.done /\ poll.i = n)

C4_Witness ==
    /\ Len(calls) >= 3
    /\ Len(Fetches) = 3
    /\ EmptyFetch(Fetches[1]) /\ EmptyFetch(Fetches[2])
    /\ Fetches[3].err = ErrGet
    /\ ret.err = ErrGet

(* C5: the poller always returns, and never issues more fetches than the   *)
(* attempt ceiling.                                                        *)
C5_PollerTerminates ==
    /\ [](Len(Fetches) <= MasterIPAttempts)
    /\ (Polling ~> ~Polling)

C5_Witness ==
    /\ Len(calls) >= MasterIPAttempts
    /\ LET F == Fetches
       IN  Len(F) = MasterIPAttempts /\ \A k \in 1..Len(F) : EmptyFetch(F[k])
    /\ ~Polling

(* C6: in one Apply, the image lookup and the network listing come before *)
(* the create call, and every fetch of a master's poller comes after a     *)
(* create that succeeded and asks for the identifier that create returned. *)
C6_ReadsThenCreateThenPoll ==
    InApply =>
        LET creates == IndexOf("Instances.Create")
            gets == IndexOf("Instances.Get")
        IN  /\ \A c \in creates :
                  /\ \E a \in 1..(c - 1) : calls[a].op = "Images.List"
                  /\ \E b \in 1..(c - 1) : calls[b].op = "Network.List"
            /\ pool.Type = ServerPoolTypeMaster
                  => \A g \in gets :
                         \E c \in creates :
                             c < g /\ calls[c].err = "" /\ calls[g].arg = calls[c].res

C6_Witness ==
    /\ InApply
    /\ pool.Type = ServerPoolTypeMaster
    /\ Len(calls) = 5
    /\ calls[3].op = "Instances.Create"
    /\ calls[5].op = "Instances.Get" /\ calls[5].arg = calls[3].res

(* C7: Apply on a pair that compares equal issues no remote call, leaves   *)
(* the cluster state and the remote instances as they were, and returns    *)
(* the expected resource with no error.                                    *)
C7_EqualPairIsNoOp ==
    [][(pc = "idle" /\ frame'.op = "Apply" /\ IsEqual(frame'.actual, frame'.expected))
         => /\ pc' = "idle"
            /\ calls' = <<>>
            /\ cluster' = cluster
            /\ instances' = instances
            /\ ret' = Returned("immutable", frame'.expected, "")]_vars

C7_Witness ==
    /\ InApply
    /\ IsEqual(frame.actual, frame.expected)
    /\ pc = "idle" /\ ret.status = "ok"
    /\ instances # {}

(* C8: Delete of a resource with an empty identifier returns an error, no  *)
(* cluster state and no resource, issues no remote call and leaves the     *)
(* cluster state as it was.                                                *)
C8_DeleteWithoutIdFails ==
    [][(pc = "idle" /\ frame'.op = "Delete" /\ frame'.actual.Identifier = "")
         => /\ ret'.status = "err"
            /\ ret'.cluster = "nil"
            /\ ret'.resource = NoResource
            /\ calls' = <<>>
            /\ cluster' = cluster
            /\ instances' = instances]_vars

C8_Witness ==
    /\ frame.op = "Delete"
    /\ frame.actual.Identifier = ""
    /\ ret.status = "err" /\ ret.err = ErrDeleteNoId

(* C9: a remote call that returns an error is the last remote call of the  *)
(* operation, and the operation returns that error.                        *)
C9_NoErrorSwallowed ==
    \A k \in 1..Len(calls) :
        calls[k].err # ""
        => /\ k = Len(calls)
           /\ pc = "idle"
           /\ ret.status = "err"
           /\ ret.err = calls[k].err

(* C10: when the network listing has no network of either expected name,  *)
(* Apply goes on to the create call, with empty network ids.               *)
C10_CreateWithEmptyNetworks ==
    (/\ InApply
     /\ IndexOf("Network.List") # {}
     /\ FindNetwork(frame.nets, NetworkName).nil
     /\ FindNetwork(frame.nets, FabricNetwork).nil)
    => /\ ret.status # "panic"
       /\ \/ pc = "create" /\ frame.createInput.Networks = <<"", "">>
          \/ \E c \in IndexOf("Instances.Create") : calls[c].arg.Networks = <<"", "">>

(* C11: Actual on a resource with an identifier whose fetch fails returns  *)
(* that error with no cluster state and no resource, not having read the   *)
(* absent instance; Actual issues no remote call but Instances.Get.        *)
C11_ActualReturnsFetchError ==
    frame.op = "Actual" =>
        /\ \A k \in 1..Len(calls) : calls[k].op = "Instances.Get"
        /\ (Len(calls) > 0 /\ calls[1].err # "")
              => ret = Returned("nil", NoResource, calls[1].err)

\* a node's Apply on a diverged pair has returned without error
NodeApplySucceeded ==
    /\ InApply
    /\ pool.Type = ServerPoolTypeNode
    /\ pc = "idle" /\ ret.status = "ok"
    /\ ~IsEqual(frame.actual, frame.expected)

\* the first address of the last fetch, once that fetch reported addresses
Discovered(F) ==
    IF Len(F) > 0 /\ F[Len(F)].err = "" /\ Len(F[Len(F)].res) > 0
    THEN F[Len(F)].res[1] ELSE ""

(* C12: after a node's Apply that succeeds, the endpoint is the address    *)
(* the poller discovered, and INJECTEDMASTER is that address, a colon and  *)
(* the port.                                                               *)
C12_WorkerEndpointIsDiscovered ==
    NodeApplySucceeded =>
        LET addr == Discovered(Fetches)
        IN  /\ addr # ""
            /\ cluster.Endpoint = addr
            /\ "INJECTEDMASTER" \in DOMAIN cluster.ItemMap
            /\ cluster.ItemMap["INJECTEDMASTER"] = addr \o ":" \o cluster.Port

\* the same, for the runs in which the poller did not run out of attempts
C12_WhenAddressFound ==
    (NodeApplySucceeded /\ ~Exhausted) => C12_WorkerEndpointIsDiscovered

(* C13: an Apply on a diverged pair that returns without error has issued  *)
(* exactly one create call, returns a resource whose identifier is the id  *)
(* that call returned, and has written that id into the ServerPool.        *)
C13_OneCreateIdHandedBack ==
    (InApply /\ pc = "idle" /\ ret.status = "ok"
       /\ ~IsEqual(frame.actual, frame.expected))
    => LET creates == IndexOf("Instances.Create")
       IN  /\ Cardinality(creates) = 1
           /\ \A c \in creates :
                 /\ calls[c].err = ""
                 /\ calls[c].res \in instances
                 /\ ret.resource.kind = "ResourceGroup"
                 /\ ret.resource.Identifier = calls[c].res
                 /\ ret.resource.ServerPool = "pool"
                 /\ pool.Identifier = calls[c].res

C13_Witness ==
    /\ InApply /\ pc = "idle" /\ ret.status = "ok"
    /\ ~IsEqual(frame.actual, frame.expected)
    /\ ret.resource.Identifier = "i-2"
    /\ pool.Identifier = "i-2"

(* C14: when Actual returns a resource with an empty identifier, that      *)
(* resource and the Expected result of the same receiver do not compare    *)
(* equal.                                                                  *)
C14_NotConvergedBeforeCreation ==
    (frame.op = "Actual" /\ ret.status = "ok" /\ ret.resource.Identifier = "")
    => ~IsEqual(ret.resource, ExpectedOf)

C14_Witness ==
    /\ frame.op = "Actual" /\ ret.status = "ok"
    /\ ret.resource.Identifier = ""
    /\ ret.resource.Name = ExpectedOf.Name
    /\ ret.resource.Tags = ExpectedOf.Tags

(* C15: the resource an operation hands back to the caller has an          *)
(* identifier only if that instance exists remotely, and an empty          *)
(* identifier only if no instance of the resource exists remotely.         *)
C15_IdentifierIffExists ==
    (pc = "idle" /\ ret.status = "ok" /\ ret.resource.kind = "ResourceGroup")
    => /\ ret.resource.Identifier # "" => ret.resource.Identifier \in instances
       /\ ret.resource.Identifier = "" => instances = {}

(* C16: Delete of a resource with an identifier issues no remote call and  *)
(* returns, with no error, a resource with an empty identifier and the     *)
(* receiver's name and tags, and the cluster state named after it, with a  *)
(* provider configuration that carries the empty group identifier.         *)
C16_DeleteClearsDown ==
    [][(pc = "idle" /\ frame'.op = "Delete" /\ frame'.actual.Identifier # "")
         => /\ pc' = "idle"
            /\ calls' = <<>>
            /\ instances' = instances
            /\ ret' = Returned("newCluster", ResourceGroup(r.Name, r.Tags, "", "nil"), "")
            /\ cluster'.Name = r.Name
            /\ cluster'.GroupIdentifier = ""]_vars

C16_Witness ==
    /\ frame.op = "Delete"
    /\ frame.actual.Identifier # ""
    /\ ret.status = "ok" /\ ret.resource.Identifier = ""
    /\ cluster.Name = ResourceName
    /\ instances # {}

\* an Apply of this resource has created an instance and returned it:
\* only then does the ServerPool carry a created identifier
AppliedBefore == pool.Identifier \in instances \ {ExistingId}

(* C17: once an Apply has succeeded, the next cycle's Apply, called with   *)
(* the result of Actual and the result of Expected, and not failing,       *)
(* finds them equal and returns at once, so no second create is issued.    *)
C17_NextCycleConverges ==
    [][(/\ pc = "idle" /\ frame.op = "Actual" /\ ret.status = "ok"
        /\ AppliedBefore
        /\ frame'.op = "Apply"
        /\ frame'.actual = ret.resource
        /\ frame'.expected = ExpectedOf
        /\ ret'.status # "err")
         => /\ IsEqual(frame'.actual, frame'.expected)
            /\ pc' = "idle"
            /\ calls' = <<>>]_vars

(* C18: when Apply has returned, every instance it created is the one it   *)
(* handed back: an Apply that returns an error has created no instance.    *)
C18_CreatedIsHandedBack ==
    (InApply /\ pc = "idle")
    => \A c \in IndexOf("Instances.Create") :
           calls[c].err = ""
           => /\ ret.status = "ok"
              /\ ret.resource.kind = "ResourceGroup"
              /\ ret.resource.Identifier = calls[c].res

\* the running or last Apply has set the endpoint: its poller returned
\* without error (a node sets it before the script, a master before returning)
EndpointWritten == InApply /\ poll.done /\ poll.err = ""

(* C19: whenever Apply has set the endpoint, the endpoint is not empty and *)
(* is an address that a fetched instance reported.                         *)
C19_EndpointIsReportedAddress ==
    EndpointWritten =>
        LET F == Fetches
        IN  /\ cluster.Endpoint # ""
            /\ \E k \in 1..Len(F) :
                  /\ F[k].err = ""
                  /\ \E j \in 1..Len(F[k].res) : F[k].res[j] = cluster.Endpoint

\* the same, for the runs in which the poller did not run out of attempts
C19_WhenAddressFound ==
    (EndpointWritten /\ ~Exhausted) => C19_EndpointIsReportedAddress

(* C20: a node's Apply whose poller fails with a fetch error returns that  *)
(* error having called nothing but Instances.Get, and no step of it, from  *)
(* its entry to that return, changes the cluster state or creates an       *)
(* instance.                                                               *)
C20_NodePollErrorLeavesNoTrace ==
    [][/\ (frame'.op = "Apply" /\ pc' = "nodePoll")
            => (cluster' = cluster /\ instances' = instances)
       /\ (pc = "nodePoll" /\ pc' = "idle" /\ poll'.err # "")
            => /\ ret' = Returned("nil", NoResource, poll'.err)
               /\ poll'.err = calls'[Len(calls')].err
               /\ \A k \in 1..Len(calls') : calls'[k].op = "Instances.Get"
               /\ cluster' = cluster
               /\ instances' = instances]_vars

C20_Witness ==
    /\ InApply
    /\ pool.Type = ServerPoolTypeNode
    /\ pc = "idle" /\ ret.status = "err" /\ ret.err = ErrGet
    /\ Len(calls) = 2
    /\ cluster.Endpoint = "" /\ cluster.ItemMap = NoTags

====
